---- MODULE Spec2Model ----
(***************************************************************************)
(* Value numbering for tree expressions (gcc/tree-vn.c).                   *)
(*                                                                         *)
(* A tree is modelled by its address: 0 is NULL_TREE, 1..Len(IR) are the   *)
(* nodes of the intermediate representation the callers own, and           *)
(* Len(IR)+i is the i-th VALUE_HANDLE node built by make_value_handle.     *)
(***************************************************************************)
EXTENDS Integers, Sequences, FiniteSets, TLC

\* ------------------------------------------------------------- bounds

\* Width in bits of make_value_handle's static unsigned counter (32 in the
\* build; scaled so that the counter's wrap-around is within reach).
IdBits == 1

\* Largest number of VALUE_HANDLE nodes built in one run of the process.
MaxHandles == 3

\* Largest number of vn_init calls (hash tables created) in one run.
MaxInits == 2

\* Largest number of direct vn_add calls in one run.
MaxAdds == 1

\* ------------------------------------------------- the IR and its oracles

NULL_TREE == 0

\* The caller's nodes. ops are operand addresses; stmt says the node carries a
\* statement annotation (STMT_ANN), which a MODIFY_EXPR statement gets when its
\* operands are first scanned; inv is is_gimple_min_invariant; leaf is the
\* number iterative_hash_expr mixes in for a node without operands.
IR == <<
  [name |-> "a",   code |-> "VAR_DECL",    class |-> "decl",  type |-> "int",   ops |-> << >>,    stmt |-> FALSE, inv |-> FALSE, leaf |-> 1],
  [name |-> "b",   code |-> "VAR_DECL",    class |-> "decl",  type |-> "int",   ops |-> << >>,    stmt |-> FALSE, inv |-> FALSE, leaf |-> 2],
  [name |-> "ab1", code |-> "PLUS_EXPR",   class |-> "expr",  type |-> "int",   ops |-> <<1, 2>>, stmt |-> FALSE, inv |-> FALSE, leaf |-> 0],
  [name |-> "ab2", code |-> "PLUS_EXPR",   class |-> "expr",  type |-> "int",   ops |-> <<1, 2>>, stmt |-> FALSE, inv |-> FALSE, leaf |-> 0],
  [name |-> "ab3", code |-> "PLUS_EXPR",   class |-> "expr",  type |-> "myint", ops |-> <<1, 2>>, stmt |-> FALSE, inv |-> FALSE, leaf |-> 0],
  [name |-> "x_1", code |-> "SSA_NAME",    class |-> "ssa",   type |-> "int",   ops |-> << >>,    stmt |-> FALSE, inv |-> FALSE, leaf |-> 3],
  [name |-> "c5",  code |-> "INTEGER_CST", class |-> "cst",   type |-> "int",   ops |-> << >>,    stmt |-> FALSE, inv |-> TRUE,  leaf |-> 5],
  [name |-> "&a",  code |-> "ADDR_EXPR",   class |-> "expr",  type |-> "ptr",   ops |-> <<1>>,    stmt |-> FALSE, inv |-> TRUE,  leaf |-> 0],
  [name |-> "x_1 = a + b", code |-> "MODIFY_EXPR", class |-> "expr", type |-> "int", ops |-> <<6, 3>>, stmt |-> TRUE, inv |-> FALSE, leaf |-> 0],
  [name |-> "list", code |-> "TREE_LIST",  class |-> "other", type |-> "void",  ops |-> << >>,    stmt |-> FALSE, inv |-> FALSE, leaf |-> 6],
  [name |-> "m_1", code |-> "SSA_NAME",    class |-> "ssa",   type |-> "mem",   ops |-> << >>,    stmt |-> FALSE, inv |-> FALSE, leaf |-> 7],
  [name |-> "m_2", code |-> "SSA_NAME",    class |-> "ssa",   type |-> "mem",   ops |-> << >>,    stmt |-> FALSE, inv |-> FALSE, leaf |-> 8],
  [name |-> "Hmanual", code |-> "VALUE_HANDLE", class |-> "other", type |-> "int", ops |-> << >>, stmt |-> FALSE, inv |-> FALSE, leaf |-> 9],
  [name |-> "x_1 = a", code |-> "MODIFY_EXPR", class |-> "expr", type |-> "int", ops |-> <<6, 1>>, stmt |-> FALSE, inv |-> FALSE, leaf |-> 0] >>

\* The address of the node called nm.
Node(nm) == CHOOSE t \in 1..Len(IR) : IR[t].name = nm

IsNode(t) == t \in 1..Len(IR)

\* The functions under optimisation: the expressions and the memory-dependency
\* sets (virtual uses) the pass presents for each.
Units == {
  \* two copies of a + b
  [exprs |-> {Node("ab1"), Node("ab2")},
   vuses |-> {<< >>}],
  \* a + b under memory states of different lengths
  [exprs |-> {Node("ab1")},
   vuses |-> {<< >>, <<Node("m_1")>>, <<Node("m_1"), Node("m_2")>>}],
  \* the same tokens in another order
  [exprs |-> {Node("ab1")},
   vuses |-> {<<Node("m_1"), Node("m_2")>>, <<Node("m_2"), Node("m_1")>>}],
  \* a + b in a compatible type
  [exprs |-> {Node("ab1"), Node("ab3")},
   vuses |-> {<<Node("m_1")>>}],
  \* constants
  [exprs |-> {Node("c5"), Node("&a")},
   vuses |-> {<< >>, <<Node("m_1")>>}],
  \* a statement and a node that is no expression
  [exprs |-> {Node("x_1"), Node("x_1 = a + b"), Node("list")},
   vuses |-> {<< >>}],
  \* a statement that has no annotation yet
  [exprs |-> {Node("x_1 = a")},
   vuses |-> {<< >>}] }

\* A value handle built outside this file.
Hmanual == Node("Hmanual")

\* ------------------------------------------------------------- state

VARIABLES
  unit,          \* the function under optimisation: [exprs, vuses]
  value_table,   \* the static htab_t: [ptr |-> 0] is NULL, else the ptr-th table created
  id,            \* make_value_handle's static counter
  handles,       \* the VALUE_HANDLE nodes built so far, in creation order: <<[id, type,
                 \* table]>>, table being the table in use when the node was built
  value_handle,  \* SSA_NAME_VALUE (e) / tree_ann (e)->common.value_handle, per node
  ntables,       \* hash tables created so far by htab_create
  nadds,         \* direct vn_add calls made so far
  last,          \* the last call made: see Call
  returned,      \* history: the [e, vuses, v] that vn_lookup_or_add returned since the
                 \* table in use was created or last written by a direct vn_add
  added          \* history: per key, the [e, vuses, v] of the latest vn_add on the
                 \* table in use (a direct call, or the one vn_lookup_or_add makes)

vars == <<unit, value_table, id, handles, value_handle, ntables, nadds, last, returned, added>>

\* ---------------------------------------------------- tree accessors

IsHandle(t) == t > Len(IR) /\ t <= Len(IR) + Len(handles)

TREE_CODE(t) == IF IsNode(t) THEN IR[t].code ELSE "VALUE_HANDLE"

TREE_TYPE(t) == IF IsNode(t) THEN IR[t].type ELSE handles[t - Len(IR)].type

VALUE_HANDLE_ID(t) == IF IsNode(t) THEN 0 ELSE handles[t - Len(IR)].id

is_gimple_min_invariant(t) == IsNode(t) /\ IR[t].inv

EXPR_P(t) == IsNode(t) /\ IR[t].class = "expr"

DECL_P(t) == IsNode(t) /\ IR[t].class = "decl"

NUM_VUSES(vuses) == Len(vuses)

VUSE_OP(vuses, i) == vuses[i + 1]

\* lang_hooks.types_compatible_p: a typedef of int is compatible with int.
types_compatible_p(t1, t2) == {t1, t2} \subseteq {"int", "myint"}

\* operand_equal_p (e1, e2, OEP_PURE_SAME): the same node, or the same code over
\* the same operands; constants by value; declarations, SSA names and value
\* handles only by identity.
operand_equal_p(e1, e2) ==
  \/ e1 = e2
  \/ /\ IsNode(e1) /\ IsNode(e2)
     /\ IR[e1].code = IR[e2].code
     /\ IR[e1].class \in {"expr", "cst"}
     /\ IR[e1].ops = IR[e2].ops
     /\ IR[e1].leaf = IR[e2].leaf

\* ------------------------------------------------------------ hashing

HashMod == 2 ^ 6

CodeNum(code) ==
  CASE code = "PLUS_EXPR" -> 11
    [] code = "ADDR_EXPR" -> 12
    [] code = "MODIFY_EXPR" -> 13
    [] OTHER -> 0

Mix(val, x) == (val * 5 + x + 1) % HashMod

\* iterative_hash_expr (t, val): the code of t, then its operands in order; a
\* node without operands by its own number (a handle by its address).
RECURSIVE iterative_hash_expr(_, _)
RECURSIVE hash_operands(_, _, _)
hash_operands(ops, i, val) ==
  IF i > Len(ops) THEN val
  ELSE hash_operands(ops, i + 1, iterative_hash_expr(ops[i], val))

iterative_hash_expr(t, val) ==
  IF ~IsNode(t) THEN Mix(val, t)
  ELSE IF IR[t].ops = << >> THEN Mix(val, IR[t].leaf)
  ELSE hash_operands(IR[t].ops, 1, Mix(val, CodeNum(IR[t].code)))

\* vn_compute's two assertions.
vn_compute_asserts(expr) == expr # NULL_TREE /\ ~(IsNode(expr) /\ IR[expr].stmt)

RECURSIVE hash_vuses(_, _, _)
hash_vuses(vuses, i, val) ==
  IF i >= NUM_VUSES(vuses) THEN val
  ELSE hash_vuses(vuses, i + 1, iterative_hash_expr(VUSE_OP(vuses, i), val))

\* vn_compute that mixes the expression's type into the hash.
vn_compute_with_type(expr, val, vuses) ==
  hash_vuses(vuses, 0,
             Mix(iterative_hash_expr(expr, val), IF TREE_TYPE(expr) = "int" THEN 1 ELSE 2))

vn_compute(expr, val, vuses) == hash_vuses(vuses, 0, iterative_hash_expr(expr, val))

\* ----------------------------------------------------------- equality

\* A comparison that knows only the first test of expressions_equal_p.
expressions_equal_p_by_identity(e1, e2) == e1 = e2

expressions_equal_p(e1, e2) ==
  \/ e1 = e2
  \/ /\ TREE_CODE(e1) = TREE_CODE(e2)
     /\ (TREE_TYPE(e1) = TREE_TYPE(e2) \/ types_compatible_p(TREE_TYPE(e1), TREE_TYPE(e2)))
     /\ operand_equal_p(e1, e2)

val_expr_pair_hash(ve) == ve.hashcode

\* An equality function that compares the virtual uses as sets.
val_expr_pair_expr_eq_as_sets(ve1, ve2) ==
  /\ expressions_equal_p(ve1.e, ve2.e)
  /\ {ve1.vuses[i] : i \in 1..Len(ve1.vuses)} = {ve2.vuses[i] : i \in 1..Len(ve2.vuses)}

val_expr_pair_expr_eq(ve1, ve2) ==
  /\ expressions_equal_p(ve1.e, ve2.e)
  /\ NUM_VUSES(ve1.vuses) = NUM_VUSES(ve2.vuses)
  /\ \A i \in 0..(NUM_VUSES(ve1.vuses) - 1) :
       expressions_equal_p(VUSE_OP(ve1.vuses, i), VUSE_OP(ve2.vuses, i))

\* ------------------------------------------------------ the hash table

NULL_HTAB == [ptr |-> 0, slots |-> {}]

val_expr_pair(v, e, vuses, hashcode) ==
  [v |-> v, e |-> e, vuses |-> vuses, hashcode |-> hashcode]

\* htab_find_slot_with_hash: the entries in the bucket of hash that the table's
\* equality function declares equal to the element.
htab_find_slot_with_hash(table, element, hash) ==
  {s \in table.slots : val_expr_pair_hash(s) = hash /\ val_expr_pair_expr_eq(s, element)}

\* ------------------------------------------------------ value handles

\* The address build0 gives the next VALUE_HANDLE node.
build0 == Len(IR) + Len(handles) + 1

\* make_value_handle that builds the node without the type it is given.
make_value_handle_untyped(type) == [id |-> id, type |-> "void", table |-> value_table.ptr]

\* make_value_handle (type): the node it builds, carrying the counter's value.
make_value_handle(type) == [id |-> id, type |-> type, table |-> value_table.ptr]

\* The counter after id++ (unsigned arithmetic).
id_incr(n) == (n + 1) % (2 ^ IdBits)

\* set_value_handle's assertion: reached only by a node that is neither an
\* SSA_NAME nor an expression or declaration.
set_value_handle_asserts(e) ==
  TREE_CODE(e) = "SSA_NAME" \/ EXPR_P(e) \/ DECL_P(e) \/ is_gimple_min_invariant(e)

\* set_value_handle that annotates SSA names only.
set_value_handle_ssa_only(vh, e, v) ==
  IF TREE_CODE(e) = "SSA_NAME" THEN [vh EXCEPT ![e] = v] ELSE vh

\* set_value_handle (e, v) on the annotations vh.
set_value_handle(vh, e, v) ==
  IF TREE_CODE(e) = "SSA_NAME" THEN [vh EXCEPT ![e] = v]
  ELSE IF EXPR_P(e) \/ DECL_P(e) THEN [vh EXCEPT ![e] = v]
  ELSE vh

\* ------------------------------------------------------- the handlers

\* The record of a call: its arguments, the table in use when it was made, what
\* it returned and how it ended.
Call(op, expr, val, vuses, ret, outcome) ==
  [op |-> op, expr |-> expr, val |-> val, vuses |-> vuses, table |-> value_table.ptr,
   ret |-> ret, outcome |-> outcome]

\* The process runs until an assertion aborts it or it dereferences a null table.
Running == last.outcome = "returned"

\* Structural equality of two expressions as the design states it: the same
\* node, or the same operation kind, identical or compatible result types and
\* pairwise equal operands.
StructurallyEqual(e1, e2) ==
  \/ e1 = e2
  \/ /\ TREE_CODE(e1) = TREE_CODE(e2)
     /\ (TREE_TYPE(e1) = TREE_TYPE(e2) \/ types_compatible_p(TREE_TYPE(e1), TREE_TYPE(e2)))
     /\ operand_equal_p(e1, e2)

\* Two keys are equal: structurally equal expressions, and memory-dependency sets
\* of the same length with the same token at every position.
SameKey(e1, d1, e2, d2) == StructurallyEqual(e1, e2) /\ d1 = d2

\* The history of adds with the add of v under key (e, vuses) filed in it.
Put(adds, by, e, vuses, v) ==
  {a \in adds : ~SameKey(a.e, a.vuses, e, vuses)}
    \cup {[by |-> by, e |-> e, vuses |-> vuses, v |-> v]}

\* The call htab_find_slot_with_hash (value_table, pair, pair->hashcode, ...).
find_slot(table, pair) == htab_find_slot_with_hash(table, pair, pair.hashcode)

\* vn_lookup's return: NULL_TREE when there is no slot, else the slot's value.
slot_value(slot) ==
  IF slot = {} THEN [outcome |-> "returned", ret |-> NULL_TREE]
  ELSE [outcome |-> "returned", ret |-> (CHOOSE s \in slot : TRUE).v]

\* vn_lookup that probes without the virtual uses (vep.vuses left NULL).
vn_lookup_result_ignoring_vuses(table, expr, vuses) ==
  IF is_gimple_min_invariant(expr) THEN [outcome |-> "returned", ret |-> expr]
  ELSE IF ~vn_compute_asserts(expr) THEN [outcome |-> "abort", ret |-> NULL_TREE]
  ELSE IF table.ptr = 0 THEN [outcome |-> "segv", ret |-> NULL_TREE]
  ELSE slot_value(find_slot(table,
         val_expr_pair(NULL_TREE, expr, << >>, vn_compute(expr, 0, << >>))))

\* vn_lookup without its test for constants.
vn_lookup_result_without_constants(table, expr, vuses) ==
  IF ~vn_compute_asserts(expr) THEN [outcome |-> "abort", ret |-> NULL_TREE]
  ELSE IF table.ptr = 0 THEN [outcome |-> "segv", ret |-> NULL_TREE]
  ELSE slot_value(find_slot(table,
         val_expr_pair(NULL_TREE, expr, vuses, vn_compute(expr, 0, vuses))))

\* vn_lookup (expr, vuses) on table: how it ends and what it returns.
vn_lookup_result(table, expr, vuses) ==
  IF is_gimple_min_invariant(expr) THEN [outcome |-> "returned", ret |-> expr]
  ELSE IF ~vn_compute_asserts(expr) THEN [outcome |-> "abort", ret |-> NULL_TREE]
  ELSE IF table.ptr = 0 THEN [outcome |-> "segv", ret |-> NULL_TREE]
  ELSE slot_value(find_slot(table,
         val_expr_pair(NULL_TREE, expr, vuses, vn_compute(expr, 0, vuses))))

\* A store that frees what an occupied slot held and puts nothing in its place.
store_freeing(table, slot, new_pair) ==
  IF slot = {} THEN [table EXCEPT !.slots = @ \cup {new_pair}]
  ELSE [table EXCEPT !.slots = @ \ slot]

\* A store that leaves an occupied slot as it is.
store_keeps_old(table, slot, new_pair) ==
  IF slot = {} THEN [table EXCEPT !.slots = @ \cup {new_pair}] ELSE table

\* A store that puts the new pair beside the one it should replace.
store_beside(table, slot, new_pair) == [table EXCEPT !.slots = @ \cup {new_pair}]

\* *slot = (void *) new_pair: the pair takes the place of what the slot held.
store(table, slot, new_pair) == [table EXCEPT !.slots = (@ \ slot) \cup {new_pair}]

\* vn_add's find-and-store of new_pair.
vn_add_store(table, new_pair) == store(table, find_slot(table, new_pair), new_pair)

\* An end of vn_add that leaves the node's value handle as it was.
vn_add_finish_unannotated(stored, vh, expr, val) ==
  IF ~set_value_handle_asserts(expr)
  THEN [outcome |-> "abort", table |-> stored, vh |-> vh]
  ELSE [outcome |-> "returned", table |-> stored, vh |-> vh]

\* The end of vn_add, on the table with the pair stored.
vn_add_finish(stored, vh, expr, val) ==
  IF ~set_value_handle_asserts(expr)
  THEN [outcome |-> "abort", table |-> stored, vh |-> vh]
  ELSE [outcome |-> "returned", table |-> stored, vh |-> set_value_handle(vh, expr, val)]

\* vn_add (expr, val, vuses) on table and annotations vh. Its last call,
\* add_to_value (val, expr), files expr in the expression set that the
\* redundancy-elimination pass keeps for val (tree-ssa-pre.c); nothing in this
\* file reads that set, and it is not part of the state here.
vn_add_result(table, vh, expr, val, vuses) ==
  IF ~vn_compute_asserts(expr)
  THEN [outcome |-> "abort", table |-> table, vh |-> vh]
  ELSE IF table.ptr = 0
  THEN [outcome |-> "segv", table |-> table, vh |-> vh]
  ELSE vn_add_finish(
         vn_add_store(table, val_expr_pair(val, expr, vuses, vn_compute(expr, 0, vuses))),
         vh, expr, val)

\* vn_lookup_or_add after its vn_add (expr, v, vuses) ended as r.
vn_lookup_or_add_new(r, v, expr) ==
  IF r.outcome = "returned"
  THEN [outcome |-> "returned", ret |-> v, table |-> r.table,
        vh |-> set_value_handle(r.vh, expr, v), built |-> TRUE]
  ELSE [outcome |-> r.outcome, ret |-> NULL_TREE, table |-> r.table, vh |-> r.vh,
        built |-> TRUE]

\* vn_lookup_or_add with its test of vn_lookup's result inverted.
vn_lookup_or_add_with_inverted(f, table, vh, expr, vuses) ==
  IF f.outcome # "returned"
  THEN [outcome |-> f.outcome, ret |-> NULL_TREE, table |-> table, vh |-> vh, built |-> FALSE]
  ELSE IF f.ret = NULL_TREE
  THEN IF set_value_handle_asserts(expr)
       THEN [outcome |-> "returned", ret |-> f.ret, table |-> table,
             vh |-> set_value_handle(vh, expr, f.ret), built |-> FALSE]
       ELSE [outcome |-> "abort", ret |-> NULL_TREE, table |-> table, vh |-> vh, built |-> FALSE]
  ELSE vn_lookup_or_add_new(vn_add_result(table, vh, expr, build0, vuses), build0, expr)

\* vn_lookup_or_add once its vn_lookup (expr, vuses) ended as f: f's value when
\* there is one, else a new handle, added to the table.
vn_lookup_or_add_with(f, table, vh, expr, vuses) ==
  IF f.outcome # "returned"
  THEN [outcome |-> f.outcome, ret |-> NULL_TREE, table |-> table, vh |-> vh, built |-> FALSE]
  ELSE IF f.ret # NULL_TREE
  THEN IF set_value_handle_asserts(expr)
       THEN [outcome |-> "returned", ret |-> f.ret, table |-> table,
             vh |-> set_value_handle(vh, expr, f.ret), built |-> FALSE]
       ELSE [outcome |-> "abort", ret |-> NULL_TREE, table |-> table, vh |-> vh, built |-> FALSE]
  ELSE vn_lookup_or_add_new(vn_add_result(table, vh, expr, build0, vuses), build0, expr)

\* vn_lookup_or_add (expr, vuses) on table and annotations vh; built says that it
\* went through make_value_handle.
vn_lookup_or_add_result(table, vh, expr, vuses) ==
  vn_lookup_or_add_with(vn_lookup_result(table, expr, vuses), table, vh, expr, vuses)

\* get_value_handle (expr) on annotations vh.
get_value_handle_result(vh, expr) ==
  IF is_gimple_min_invariant(expr) THEN [outcome |-> "returned", ret |-> expr]
  ELSE IF TREE_CODE(expr) = "SSA_NAME" THEN [outcome |-> "returned", ret |-> vh[expr]]
  ELSE IF EXPR_P(expr) \/ DECL_P(expr) THEN [outcome |-> "returned", ret |-> vh[expr]]
  ELSE [outcome |-> "abort", ret |-> NULL_TREE]

\* htab_create: the table it returns.
htab_create == [ptr |-> ntables + 1, slots |-> {}]

vn_init ==
  /\ Running
  /\ ntables < MaxInits
  /\ ntables' = ntables + 1
  /\ value_table' = htab_create
  /\ last' = Call("vn_init", NULL_TREE, NULL_TREE, << >>, NULL_TREE, "returned")
  /\ returned' = {}
  /\ added' = {}
  /\ UNCHANGED <<unit, id, handles, value_handle, nadds>>

\* vn_delete that frees the table and keeps the pointer to it.
vn_delete_keeps_pointer ==
  /\ Running
  /\ last' = Call("vn_delete", NULL_TREE, NULL_TREE, << >>, NULL_TREE,
                  IF value_table.ptr = 0 THEN "segv" ELSE "returned")
  /\ returned' = {}
  /\ added' = {}
  /\ UNCHANGED <<unit, value_table, id, handles, value_handle, ntables, nadds>>

\* vn_delete that also clears the value handle of every node.
vn_delete_clearing_handles ==
  /\ Running
  /\ value_table' = NULL_HTAB
  /\ value_handle' = [t \in 1..Len(IR) |-> NULL_TREE]
  /\ last' = Call("vn_delete", NULL_TREE, NULL_TREE, << >>, NULL_TREE,
                  IF value_table.ptr = 0 THEN "segv" ELSE "returned")
  /\ returned' = {}
  /\ added' = {}
  /\ UNCHANGED <<unit, id, handles, ntables, nadds>>

vn_delete ==
  /\ Running
  /\ value_table' = NULL_HTAB
  /\ last' = Call("vn_delete", NULL_TREE, NULL_TREE, << >>, NULL_TREE,
                  IF value_table.ptr = 0 THEN "segv" ELSE "returned")
  /\ returned' = {}
  /\ added' = {}
  /\ UNCHANGED <<unit, id, handles, value_handle, ntables, nadds>>

\* The call is recorded with what it returned and how it ended.
Return(op, expr, val, vuses, r) == last' = Call(op, expr, val, vuses, r.ret, r.outcome)

\* vn_lookup that, like vn_lookup_or_add, annotates the node with what it found.
vn_lookup_annotating(expr, vuses) ==
  /\ Running
  /\ Return("vn_lookup", expr, NULL_TREE, vuses, vn_lookup_result(value_table, expr, vuses))
  /\ value_handle' = set_value_handle(value_handle, expr,
                                      vn_lookup_result(value_table, expr, vuses).ret)
  /\ UNCHANGED <<unit, value_table, id, handles, ntables, nadds, returned, added>>

vn_lookup(expr, vuses) ==
  /\ Running
  /\ Return("vn_lookup", expr, NULL_TREE, vuses, vn_lookup_result(value_table, expr, vuses))
  /\ UNCHANGED <<unit, value_table, id, handles, value_handle, ntables, nadds, returned, added>>

\* What a vn_add that ended as r leaves.
vn_add_effect(r, expr, val, vuses) ==
  /\ value_table' = r.table
  /\ value_handle' = r.vh
  /\ last' = Call("vn_add", expr, val, vuses, NULL_TREE, r.outcome)
  /\ returned' = {}
  /\ added' = IF r.outcome = "returned" THEN Put(added, "vn_add", expr, vuses, val) ELSE added

vn_add(expr, val, vuses) ==
  /\ Running
  /\ nadds < MaxAdds
  /\ nadds' = nadds + 1
  /\ vn_add_effect(vn_add_result(value_table, value_handle, expr, val, vuses), expr, val, vuses)
  /\ UNCHANGED <<unit, id, handles, ntables>>

\* What a vn_lookup_or_add that ended as r leaves.
vn_lookup_or_add_effect(r, expr, vuses) ==
  /\ r.built => Len(handles) < MaxHandles
  /\ handles' = IF r.built THEN Append(handles, make_value_handle(TREE_TYPE(expr)))
                ELSE handles
  /\ id' = IF r.built THEN id_incr(id) ELSE id
  /\ value_table' = r.table
  /\ value_handle' = r.vh
  /\ Return("vn_lookup_or_add", expr, NULL_TREE, vuses, r)
  /\ returned' = IF r.outcome = "returned" /\ \A a \in added : a.by # "vn_add"
                 THEN returned \cup {[e |-> expr, vuses |-> vuses, v |-> r.ret]}
                 ELSE returned
  /\ added' = IF r.built /\ r.outcome = "returned"
              THEN Put(added, "vn_lookup_or_add", expr, vuses, r.ret) ELSE added

vn_lookup_or_add(expr, vuses) ==
  /\ Running
  /\ vn_lookup_or_add_effect(
       vn_lookup_or_add_result(value_table, value_handle, expr, vuses), expr, vuses)
  /\ UNCHANGED <<unit, ntables, nadds>>

get_value_handle(expr) ==
  /\ Running
  /\ Return("get_value_handle", expr, NULL_TREE, << >>,
            get_value_handle_result(value_handle, expr))
  /\ UNCHANGED <<unit, value_table, id, handles, value_handle, ntables, nadds, returned, added>>

\* The values a caller hands to vn_add: the value its last call returned, or a
\* handle built outside.
Vals == {Hmanual} \cup ({last.ret} \ {NULL_TREE})

Init ==
  /\ unit \in Units
  /\ value_table = NULL_HTAB
  /\ id = 0
  /\ handles = << >>
  /\ value_handle = [t \in 1..Len(IR) |-> NULL_TREE]
  /\ ntables = 0
  /\ nadds = 0
  /\ last = Call("start", NULL_TREE, NULL_TREE, << >>, NULL_TREE, "returned")
  /\ returned = {}
  /\ added = {}

Next ==
  \/ vn_init
  \/ vn_delete
  \/ \E expr \in unit.exprs, vuses \in unit.vuses : vn_lookup(expr, vuses)
  \/ \E expr \in unit.exprs, val \in Vals, vuses \in unit.vuses : vn_add(expr, val, vuses)
  \/ \E expr \in unit.exprs, vuses \in unit.vuses : vn_lookup_or_add(expr, vuses)
  \/ \E expr \in unit.exprs : get_value_handle(expr)

Spec == Init /\ [][Next]_vars

\* ------------------------------------------------------------- claims

C3_MemorySensitivity ==
  \A r1 \in returned, r2 \in returned :
    (/\ ~is_gimple_min_invariant(r1.e)
     /\ StructurallyEqual(r1.e, r2.e)
     /\ r1.vuses # r2.vuses) => r1.v # r2.v

\* One expression got three different handles: with no token, and with two
\* different sets of tokens.
C3_Witness ==
  \E r0 \in returned, r1 \in returned, r2 \in returned :
    /\ r0.e = r1.e /\ r1.e = r2.e
    /\ r0.vuses = << >> /\ r1.vuses # << >> /\ r2.vuses # << >> /\ r1.vuses # r2.vuses
    /\ r0.v # r1.v /\ r0.v # r2.v /\ r1.v # r2.v

\* C4. Constant self-identity: in every state of an active session, for every
\* constant c and memory-dependency set d, vn_lookup (c, d), vn_lookup_or_add
\* (c, d) and get_value_handle (c) return c, and vn_lookup_or_add builds no
\* handle and leaves the table as it is.
C4_ConstantSelfIdentity ==
  value_table.ptr # 0 =>
    \A c \in unit.exprs :
      is_gimple_min_invariant(c) =>
        /\ get_value_handle_result(value_handle, c) = [outcome |-> "returned", ret |-> c]
        /\ \A d \in unit.vuses :
             /\ vn_lookup_result(value_table, c, d) = [outcome |-> "returned", ret |-> c]
             /\ LET r == vn_lookup_or_add_result(value_table, value_handle, c, d)
                IN r.outcome = "returned" /\ r.ret = c /\ ~r.built /\ r.table = value_table

\* vn_lookup_or_add returned a constant for which the table holds another value.
C4_Witness ==
  /\ last.op = "vn_lookup_or_add"
  /\ is_gimple_min_invariant(last.expr)
  /\ last.ret = last.expr
  /\ \E s \in value_table.slots : s.e = last.expr /\ s.vuses = last.vuses /\ s.v # last.expr

\* C5, as claimed. Replace semantics: after any vn_add (e, h, deps), until the
\* next vn_add on an equal key or the end of the session, vn_lookup and
\* vn_lookup_or_add on every equal key return h, and build no handle.
C5_LastWriteWins ==
  \A a \in added : \A e \in unit.exprs :
    StructurallyEqual(e, a.e) =>
      /\ vn_lookup_result(value_table, e, a.vuses) = [outcome |-> "returned", ret |-> a.v]
      /\ LET r == vn_lookup_or_add_result(value_table, value_handle, e, a.vuses)
         IN r.outcome = "returned" /\ r.ret = a.v /\ ~r.built

\* C5, amended. The same for every vn_add (e, h, deps) on an e that is not a
\* constant.
C5_LastWriteWinsNonConstant ==
  \A a \in added : \A e \in unit.exprs :
    (~is_gimple_min_invariant(a.e) /\ StructurallyEqual(e, a.e)) =>
      /\ vn_lookup_result(value_table, e, a.vuses) = [outcome |-> "returned", ret |-> a.v]
      /\ LET r == vn_lookup_or_add_result(value_table, value_handle, e, a.vuses)
         IN r.outcome = "returned" /\ r.ret = a.v /\ ~r.built

\* vn_lookup on one node returned the outside handle that vn_add stored under
\* another node, in place of the handle built earlier in this session.
C5_Witness ==
  /\ last.op = "vn_lookup"
  /\ last.ret = Hmanual
  /\ Cardinality(value_table.slots) = 1
  /\ \E i \in 1..Len(handles) : handles[i].table = value_table.ptr
  /\ \E a \in added :
       /\ a.by = "vn_add"
       /\ a.e # last.expr
       /\ SameKey(a.e, a.vuses, last.expr, last.vuses)
       /\ a.v = Hmanual

\* C6, as claimed. Teardown isolation: a vn_lookup, vn_add, vn_lookup_or_add or
\* get_value_handle call made while no session is active (before vn_init, after
\* vn_delete) never returns normally, whatever the expression.
C6_TeardownIsolation ==
  (last.table = 0 /\ last.op \in {"vn_lookup", "vn_add", "vn_lookup_or_add", "get_value_handle"})
    => last.outcome # "returned"

SessionState(table, n) ==
  IF table.ptr # 0 THEN "Active" ELSE IF n = 0 THEN "Uninitialized" ELSE "Closed"

\* C7, as claimed. The session changes state only from Uninitialized to Active
\* by vn_init and from Active to Closed by vn_delete; a closed session stays
\* closed, and vn_init on an active session leaves the table as it is.
C7_SessionStateMachine ==
  [][LET s == SessionState(value_table, ntables)
         t == SessionState(value_table', ntables')
     IN /\ s # t => \/ s = "Uninitialized" /\ t = "Active" /\ last'.op = "vn_init"
                    \/ s = "Active" /\ t = "Closed" /\ last'.op = "vn_delete"
        /\ s = "Closed" => t = "Closed"
        /\ (s = "Active" /\ last'.op = "vn_init") => value_table' = value_table]_vars

\* C7, amended. The table pointer changes only by vn_init, to a new and empty
\* table whatever the state it is called in (an active session included, whose
\* table it replaces), and by vn_delete, from a table to NULL; a table that was
\* closed or replaced is never in use again.
C7_TablePointerChanges ==
  [][/\ value_table'.ptr # value_table.ptr =>
          \/ last'.op = "vn_init"
          \/ last'.op = "vn_delete" /\ value_table.ptr # 0 /\ value_table' = NULL_HTAB
     /\ last'.op = "vn_init" =>
          value_table' = [ptr |-> ntables + 1, slots |-> {}] /\ ntables' = ntables + 1
     /\ (last'.op = "vn_delete" /\ last'.outcome = "returned") => value_table' = NULL_HTAB
     /\ value_table'.ptr # 0 => value_table'.ptr = ntables']_vars

\* vn_init was called on an active session in which a handle had been built, and
\* left a new, empty table.
C7_Witness ==
  /\ last.op = "vn_init"
  /\ last.table # 0
  /\ value_table.ptr # last.table
  /\ value_table.slots = {}
  /\ \E i \in 1..Len(handles) : handles[i].table = last.table

\* C8, as claimed. Monotonic ids: of two handles built in one session the later
\* has the strictly greater id, however many handles are built.
C8_MonotonicIds ==
  \A i \in 1..Len(handles), j \in 1..Len(handles) :
    (i < j /\ handles[i].table = handles[j].table) => handles[i].id < handles[j].id

\* C9, as claimed. vn_init and vn_delete leave the id counter unchanged, and a
\* handle built in a later session has a strictly greater id than every handle
\* built in an earlier session.
C9_IdsAcrossSessions ==
  [][/\ last'.op \in {"vn_init", "vn_delete"} => id' = id
     /\ \A i \in 1..Len(handles'), j \in 1..Len(handles') :
          handles'[i].table < handles'[j].table => handles'[i].id < handles'[j].id]_vars

\* C10. In every state of an active session the table holds at most one entry
\* per key: no two entries have structurally equal expressions and the same
\* memory-dependency tokens.
C10_OneEntryPerKey ==
  value_table.ptr # 0 =>
    \A s1 \in value_table.slots, s2 \in value_table.slots :
      SameKey(s1.e, s1.vuses, s2.e, s2.vuses) => s1 = s2

\* vn_add wrote a key whose handle had been built in this session: the table
\* holds one entry, and it is not the built handle.
C10_Witness ==
  /\ last.op = "vn_add"
  /\ last.outcome = "returned"
  /\ Cardinality(value_table.slots) = 1
  /\ \E s \in value_table.slots : SameKey(s.e, s.vuses, last.expr, last.vuses) /\ s.v = last.val
  /\ \E i \in 1..Len(handles) :
       /\ handles[i].table = value_table.ptr
       /\ \A s \in value_table.slots : s.v # Len(IR) + i

\* C11. For a non-constant node e on which get_value_handle returns, it returns
\* NULL_TREE as long as no vn_add or vn_lookup_or_add was made on that node;
\* a vn_add (e, h, _) that returns makes it h and a vn_lookup_or_add (e, _) that
\* returns makes it the handle returned; every other call (on other nodes,
\* structurally equal ones included, and vn_lookup on any node) leaves it as
\* it is.
C11_NodeAssociation ==
  /\ \A e \in unit.exprs : ~is_gimple_min_invariant(e) => value_handle[e] = NULL_TREE
  /\ [][\A e \in unit.exprs :
          (~is_gimple_min_invariant(e)
           /\ get_value_handle_result(value_handle, e).outcome = "returned") =>
            IF last'.op \in {"vn_add", "vn_lookup_or_add"}
               /\ last'.outcome = "returned" /\ last'.expr = e
            THEN get_value_handle_result(value_handle', e).ret
                   = (IF last'.op = "vn_add" THEN last'.val ELSE last'.ret)
            ELSE get_value_handle_result(value_handle', e)
                   = get_value_handle_result(value_handle, e)]_vars

\* get_value_handle on a node returned the handle built for it, after vn_add on
\* a structurally equal node had put an outside handle in the table.
C11_Witness ==
  /\ last.op = "get_value_handle"
  /\ IsHandle(last.ret)
  /\ \E e \in unit.exprs :
       /\ e # last.expr
       /\ StructurallyEqual(e, last.expr)
       /\ value_handle[e] = Hmanual
       /\ \E s \in value_table.slots : s.e = e /\ s.v = Hmanual

\* C12. vn_lookup is read-only: a vn_lookup call, however it ends, leaves the
\* table, the nodes' value handles, the id counter and the handles built as
\* they are; when it returns for a non-constant expression whose key no entry
\* of the table equals, in particular in a table just created, it returns
\* NULL_TREE.
C12_LookupReadOnly ==
  [][last'.op = "vn_lookup" =>
       /\ value_table' = value_table
       /\ value_handle' = value_handle
       /\ id' = id
       /\ handles' = handles
       /\ (/\ last'.outcome = "returned"
           /\ ~is_gimple_min_invariant(last'.expr)
           /\ \A s \in value_table.slots :
                ~SameKey(s.e, s.vuses, last'.expr, last'.vuses)) => last'.ret = NULL_TREE]_vars

\* vn_lookup missed in a table that holds an entry for the same expression under
\* other virtual uses, and the node kept the handle it had.
C12_Witness ==
  /\ last.op = "vn_lookup"
  /\ last.outcome = "returned"
  /\ last.ret = NULL_TREE
  /\ \E s \in value_table.slots : s.e = last.expr /\ s.vuses # last.vuses
  /\ IsHandle(value_handle[last.expr])

\* C13. A vn_lookup_or_add (e, deps) that returns, e not a constant: when the
\* table holds an entry with an equal key it returns that entry's value, builds
\* no handle, leaves the counter and the table as they are; when it holds none
\* it builds one handle, which carries the counter's value and e's type, steps
\* the counter by one, adds exactly one entry to the table, and returns the new
\* handle, which a vn_lookup (e, deps) made next returns too. It never returns
\* NULL_TREE.
C13_LookupOrAdd ==
  [][(/\ last'.op = "vn_lookup_or_add"
      /\ last'.outcome = "returned"
      /\ ~is_gimple_min_invariant(last'.expr)) =>
       LET e == last'.expr
           d == last'.vuses
           present == {s \in value_table.slots : SameKey(s.e, s.vuses, e, d)}
           n == Len(handles')
       IN /\ last'.ret # NULL_TREE
          /\ IF present # {}
             THEN /\ \A s \in present : last'.ret = s.v
                  /\ id' = id
                  /\ handles' = handles
                  /\ value_table' = value_table
             ELSE /\ n = Len(handles) + 1
                  /\ \A i \in 1..Len(handles) : handles'[i] = handles[i]
                  /\ handles'[n].id = id
                  /\ handles'[n].type = IR[e].type
                  /\ id' = (id + 1) % (2 ^ IdBits)
                  /\ last'.ret = Len(IR) + n
                  /\ value_table'.ptr = value_table.ptr
                  /\ value_table.slots \subseteq value_table'.slots
                  /\ Cardinality(value_table'.slots) = Cardinality(value_table.slots) + 1
                  /\ \A s \in value_table'.slots \ value_table.slots :
                       s.e = e /\ s.vuses = d /\ s.v = last'.ret
                  /\ vn_lookup_result(value_table', e, d)
                       = [outcome |-> "returned", ret |-> last'.ret]]_vars

\* vn_lookup_or_add built a further handle, for a key the table did not hold,
\* beside an entry it held already.
C13_Witness ==
  /\ last.op = "vn_lookup_or_add"
  /\ Len(handles) >= 2
  /\ last.ret = Len(IR) + Len(handles)
  /\ id = id_incr(handles[Len(handles)].id)
  /\ Cardinality(value_table.slots) >= 2
  /\ \E s \in value_table.slots : s.e = last.expr /\ s.vuses = last.vuses /\ s.v = last.ret

\* C14. Hash and equality agree: any two keys of the unit that the table's
\* equality function declares equal, keys of compatible but different types
\* included, have the same vn_compute value, and a probe for a key finds every
\* entry of the table that the equality function declares equal to it.
C14_HashAgreesWithEquality ==
  /\ \A e1 \in unit.exprs, e2 \in unit.exprs, d1 \in unit.vuses, d2 \in unit.vuses :
       (/\ vn_compute_asserts(e1)
        /\ vn_compute_asserts(e2)
        /\ val_expr_pair_expr_eq(val_expr_pair(NULL_TREE, e1, d1, 0),
                                 val_expr_pair(NULL_TREE, e2, d2, 0)))
         => vn_compute(e1, 0, d1) = vn_compute(e2, 0, d2)
  /\ \A s \in value_table.slots : \A e \in unit.exprs, d \in unit.vuses :
       (vn_compute_asserts(e) /\ SameKey(s.e, s.vuses, e, d))
         => s \in find_slot(value_table, val_expr_pair(NULL_TREE, e, d, vn_compute(e, 0, d)))

\* vn_lookup through a node of one type found the handle built for a node of a
\* compatible, different type.
C14_Witness ==
  /\ last.op = "vn_lookup"
  /\ IsHandle(last.ret)
  /\ \E s \in value_table.slots :
       /\ s.v = last.ret
       /\ s.e # last.expr
       /\ IR[s.e].type # IR[last.expr].type
       /\ s.hashcode = vn_compute(last.expr, 0, last.vuses)

\* Sequence p is a proper prefix of sequence q.
ProperPrefix(p, q) == Len(p) < Len(q) /\ \A i \in 1..Len(p) : p[i] = q[i]

\* The tokens of a sequence of virtual uses.
Tokens(d) == {d[i] : i \in 1..Len(d)}

\* C15. The table's equality function compares virtual uses position by
\* position: two keys are equal if and only if their expressions are
\* structurally equal, their virtual uses have the same length and the tokens
\* at each index are the same; and the handles vn_lookup_or_add made for one
\* expression under the same tokens in another order, or under a proper prefix
\* of the tokens, are different.
C15_PositionWiseEquality ==
  /\ \A e1 \in unit.exprs, e2 \in unit.exprs, d1 \in unit.vuses, d2 \in unit.vuses :
       val_expr_pair_expr_eq(val_expr_pair(NULL_TREE, e1, d1, 0),
                             val_expr_pair(NULL_TREE, e2, d2, 0))
         <=> (/\ StructurallyEqual(e1, e2)
              /\ Len(d1) = Len(d2)
              /\ \A i \in 1..Len(d1) : d1[i] = d2[i])
  /\ \A r1 \in returned, r2 \in returned :
       (/\ ~is_gimple_min_invariant(r1.e)
        /\ StructurallyEqual(r1.e, r2.e)
        /\ \/ Tokens(r1.vuses) = Tokens(r2.vuses) /\ r1.vuses # r2.vuses
           \/ ProperPrefix(r1.vuses, r2.vuses)) => r1.v # r2.v

\* One expression got two handles, for the same two tokens in the two orders.
C15_Witness ==
  \E r1 \in returned, r2 \in returned :
    /\ r1.e = r2.e
    /\ Len(r1.vuses) = 2
    /\ r1.vuses[1] # r1.vuses[2]
    /\ r2.vuses = <<r1.vuses[2], r1.vuses[1]>>
    /\ IsHandle(r1.v) /\ IsHandle(r2.v)
    /\ r1.v # r2.v

\* C16, as claimed. Precondition violations are fatal, never a returned value:
\* vn_lookup, vn_add and vn_lookup_or_add on a statement (a MODIFY_EXPR) do not
\* return; get_value_handle on a node that is no constant, no SSA name and no
\* expression or declaration does not return, nor do vn_add and
\* vn_lookup_or_add on such a node; and vn_lookup_or_add never returns
\* NULL_TREE.
C16_PreconditionsFatal ==
  /\ (/\ last.op \in {"vn_lookup", "vn_add", "vn_lookup_or_add"}
      /\ TREE_CODE(last.expr) = "MODIFY_EXPR") => last.outcome # "returned"
  /\ (/\ last.op \in {"get_value_handle", "vn_add", "vn_lookup_or_add"}
      /\ ~is_gimple_min_invariant(last.expr)
      /\ TREE_CODE(last.expr) # "SSA_NAME"
      /\ ~EXPR_P(last.expr)
      /\ ~DECL_P(last.expr)) => last.outcome # "returned"
  /\ (last.op = "vn_lookup_or_add" /\ last.outcome = "returned") => last.ret # NULL_TREE

\* Node e's value handle is what the table gives for key (e, d).
Consistent(table, vh, e, d) ==
  /\ get_value_handle_result(vh, e).ret # NULL_TREE
  /\ get_value_handle_result(vh, e).ret = vn_lookup_result(table, e, d).ret

\* C17, as claimed. Within a session, once the value handle of a non-constant
\* node e is the one the table gives for (e, d), it stays so whatever call is
\* made next, vn_add and vn_lookup_or_add on other nodes or with other virtual
\* uses included.
C17_AssociationMatchesTable ==
  [][\A e \in unit.exprs, d \in unit.vuses :
       (/\ ~is_gimple_min_invariant(e)
        /\ value_table.ptr # 0
        /\ value_table'.ptr = value_table.ptr
        /\ last'.outcome = "returned"
        /\ Consistent(value_table, value_handle, e, d))
         => Consistent(value_table', value_handle', e, d)]_vars

\* C17, amended. The same, for every call but a vn_add on an equal key made
\* through another node, and a vn_add or vn_lookup_or_add on e itself with
\* other virtual uses.
C17_AssociationMatchesTableUnlessRewritten ==
  [][\A e \in unit.exprs, d \in unit.vuses :
       (/\ ~is_gimple_min_invariant(e)
        /\ value_table.ptr # 0
        /\ value_table'.ptr = value_table.ptr
        /\ last'.outcome = "returned"
        /\ Consistent(value_table, value_handle, e, d)
        /\ ~(/\ last'.op = "vn_add"
             /\ last'.expr # e
             /\ SameKey(last'.expr, last'.vuses, e, d))
        /\ ~(/\ last'.op \in {"vn_add", "vn_lookup_or_add"}
             /\ last'.expr = e
             /\ last'.vuses # d))
         => Consistent(value_table', value_handle', e, d)]_vars

\* vn_add put an outside handle for a node that had a built one, and the node's
\* value handle is the one the table gives for the key.
C17_Witness ==
  /\ last.op = "vn_add"
  /\ last.outcome = "returned"
  /\ last.val = Hmanual
  /\ ~is_gimple_min_invariant(last.expr)
  /\ Consistent(value_table, value_handle, last.expr, last.vuses)
  /\ \E i \in 1..Len(handles) : handles[i].table = value_table.ptr
  /\ Cardinality(value_table.slots) = 1

\* C18. vn_delete discards the table only: vn_delete and vn_init leave the value
\* handle of every node and the handles built as they are, so that after a
\* vn_init every vn_lookup that returns for a non-constant key returns
\* NULL_TREE, while get_value_handle still gives each node the handle it had.
C18_TeardownKeepsAssociations ==
  [][last'.op \in {"vn_delete", "vn_init"} =>
       /\ value_handle' = value_handle
       /\ handles' = handles
       /\ \A e \in unit.exprs :
            get_value_handle_result(value_handle', e) = get_value_handle_result(value_handle, e)
       /\ last'.op = "vn_init" =>
            \A e \in unit.exprs, d \in unit.vuses :
              (/\ ~is_gimple_min_invariant(e)
               /\ vn_lookup_result(value_table', e, d).outcome = "returned")
                => vn_lookup_result(value_table', e, d).ret = NULL_TREE]_vars

\* After vn_delete and a new vn_init a node still has the handle built for it in
\* the closed session, and the new table has nothing for it.
C18_Witness ==
  /\ last.op = "vn_init"
  /\ last.table = 0
  /\ ntables = 2
  /\ \E e \in unit.exprs, d \in unit.vuses :
       /\ IsHandle(value_handle[e])
       /\ handles[value_handle[e] - Len(IR)].table = 1
       /\ get_value_handle_result(value_handle, e).ret = value_handle[e]
       /\ vn_lookup_result(value_table, e, d) = [outcome |-> "returned", ret |-> NULL_TREE]

\* The entries of the table whose key equals (e, d).
Present(table, e, d) == {s \in table.slots : SameKey(s.e, s.vuses, e, d)}

\* C19, as claimed. While a session is active and until vn_delete, on every
\* call that returns: a non-constant key for which vn_lookup gives a handle
\* still has one afterwards; the number of entries does not decrease; it grows
\* by exactly one on a vn_add or vn_lookup_or_add whose key was absent, and is
\* unchanged by a vn_add whose key was present and by vn_lookup and
\* get_value_handle.
C19_KeysNeverRemoved ==
  [][(value_table.ptr # 0 /\ last'.op # "vn_delete" /\ last'.outcome = "returned") =>
       /\ \A e \in unit.exprs, d \in unit.vuses :
            (/\ ~is_gimple_min_invariant(e)
             /\ vn_lookup_result(value_table, e, d).ret # NULL_TREE)
              => vn_lookup_result(value_table', e, d).ret # NULL_TREE
       /\ Cardinality(value_table'.slots) >= Cardinality(value_table.slots)
       /\ (/\ last'.op \in {"vn_add", "vn_lookup_or_add"}
           /\ Present(value_table, last'.expr, last'.vuses) = {})
            => Cardinality(value_table'.slots) = Cardinality(value_table.slots) + 1
       /\ (/\ last'.op = "vn_add"
           /\ Present(value_table, last'.expr, last'.vuses) # {})
            => Cardinality(value_table'.slots) = Cardinality(value_table.slots)
       /\ last'.op \in {"vn_lookup", "get_value_handle"} => value_table' = value_table]_vars

\* C19, amended. The same while the table in use stays the same one (until
\* vn_delete or a further vn_init), the growth by one holding for a vn_add whose
\* key was absent and for a vn_lookup_or_add on a non-constant expression whose
\* key was absent; a vn_lookup_or_add on a constant leaves the table as it is.
C19_KeysNeverRemovedInOneTable ==
  [][(/\ value_table.ptr # 0
      /\ value_table'.ptr = value_table.ptr
      /\ last'.outcome = "returned") =>
       /\ \A e \in unit.exprs, d \in unit.vuses :
            (/\ ~is_gimple_min_invariant(e)
             /\ vn_lookup_result(value_table, e, d).ret # NULL_TREE)
              => vn_lookup_result(value_table', e, d).ret # NULL_TREE
       /\ Cardinality(value_table'.slots) >= Cardinality(value_table.slots)
       /\ (/\ \/ last'.op = "vn_add"
              \/ last'.op = "vn_lookup_or_add" /\ ~is_gimple_min_invariant(last'.expr)
           /\ Present(value_table, last'.expr, last'.vuses) = {})
            => Cardinality(value_table'.slots) = Cardinality(value_table.slots) + 1
       /\ (/\ last'.op = "vn_add"
           /\ Present(value_table, last'.expr, last'.vuses) # {})
            => Cardinality(value_table'.slots) = Cardinality(value_table.slots)
       /\ (last'.op = "vn_lookup_or_add" /\ is_gimple_min_invariant(last'.expr))
            => value_table' = value_table
       /\ last'.op \in {"vn_lookup", "get_value_handle"} => value_table' = value_table]_vars

\* vn_add stored an outside handle beside the entry of another key, for which
\* vn_lookup still gives the handle built for it.
C19_Witness ==
  /\ last.op = "vn_add"
  /\ last.outcome = "returned"
  /\ Cardinality(value_table.slots) = 2
  /\ \E s \in value_table.slots :
       /\ ~SameKey(s.e, s.vuses, last.expr, last.vuses)
       /\ IsHandle(s.v)
       /\ vn_lookup_result(value_table, s.e, s.vuses).ret = s.v

====
